---- MODULE Spec2Model ----
(***************************************************************************)
(* Model of the imghash crate: the ImageHash type (src/src/imghash.rs)     *)
(* with its hexadecimal codec and its Hamming distance, the four hashers,  *)
(* the grayscale and resize step (convert.rs) and the DCT and median of    *)
(* math.rs.                                                                *)
(*                                                                         *)
(* A hash is a record [data, width, height]; data is the logical bit       *)
(* sequence of the BitBox (index 1 of the sequence is bit 0 of the box).   *)
(* A string is a sequence of Unicode code points, so that its byte length  *)
(* (str::len) and its character count (str::chars) can differ, and a hex   *)
(* digit is a character that has to be formatted and parsed.               *)
(* Every call returns a record [kind, val] with kind "Ok", "Err" or        *)
(* "Panic".                                                                *)
(***************************************************************************)
EXTENDS Integers, Sequences, FiniteSets, TLC

VARIABLES bits, width, height, str, hash, other, ret, pc,
          matrix,
          cfg, pixels, file, imgCalls,
          img, space, grayBuf, task,
          filterCalls,
          slice, slice0, ax

\* the argument of ImageHash::new
matrixVars == <<matrix>>

\* a hasher, the grayscale bytes convert returned to it, the file behind
\* the path handed to hash_from_path and the number of calls of hash_from_img
hasherVars == <<cfg, pixels, file, imgCalls>>

\* the image handed to grayscale, the colour space, the output buffer and
\* the per-pixel tasks of the parallel loop
grayVars == <<img, space, grayBuf, task>>

\* the number of calls of the resize filter made by convert
convertVars == <<filterCalls>>

\* the slice handed to dct2 or to median, the values it held before the
\* call, and the axis handed to dct2_over_matrix
mathVars == <<slice, slice0, ax>>

vars == <<bits, width, height, str, hash, other, ret, pc, matrix,
          cfg, pixels, file, imgCalls, img, space, grayBuf, task,
          filterCalls, slice, slice0, ax>>

(***************************************************************************)
(* Bounds of the model.                                                    *)
(***************************************************************************)
\* largest width and largest height handed to a constructor or to decode
MaxDim == 4
\* longest boolean sequence handed to from_bool_iter
MaxBits == 12
\* longest string handed to decode as a free input
MaxStrLen == 3
\* largest number of bits of the two operands of distance
MaxDistBits == 6

Dims == 0..MaxDim

\* code points of the characters the free input strings are made of:
\* '0' '1' '9' 'A' 'F' 'a' 'g' and the two-byte character U+00E9
Alphabet == {48, 49, 57, 65, 70, 97, 103, 233}

BoolSeqs(n) == UNION {[1..k -> BOOLEAN] : k \in 0..n}

Strs(n) == UNION {[1..k -> Alphabet] : k \in 0..n}

(***************************************************************************)
(* Results.                                                                *)
(***************************************************************************)
Ok(v) == [kind |-> "Ok", val |-> v]

Err(reason) == [kind |-> "Err", val |-> reason]

Panic(reason) == [kind |-> "Panic", val |-> reason]

\* no call has returned yet
NoRet == [kind |-> "None", val |-> ""]

\* no hasher
NoCfg == [kind |-> "none", width |-> 0, height |-> 0, factor |-> 0, checked |-> FALSE]

\* a binding that holds no hash (yet)
NoHash == [data |-> <<>>, width |-> -1, height |-> -1]

ImageHash(d, w, h) == [data |-> d, width |-> w, height |-> h]

(***************************************************************************)
(* The panic and error messages of imghash.rs.                             *)
(***************************************************************************)
PanicIndex == "index out of bounds"

PanicLength == "Data length does not match the specified width and height"

PanicEmptyMatrix == "Cannot encode an empty matrix"

PanicUnwrapNone == "called Option::unwrap on a None value"

ErrZeroSize == "Width or height cannot be 0"

ErrEmptyString == "String is empty"

ErrWrongLength == "String is too short or too long for the specified size"

\* the invalid-digit message, were it a copy of the one above
ErrInvalidDigitCopied == "String is too short or too long for the specified size"

ErrInvalidDigit == "invalid digit found in string"

ErrDifferentSizes == "Cannot compute distance of hashes with different sizes"

(***************************************************************************)
(* ImageHash::from_bool_iter                                               *)
(***************************************************************************)
\* a from_bool_iter that cuts a long sequence and fills a short one with false
FromBoolIterFill(iter, w, h) ==
    Ok(ImageHash([i \in 1..(w * h) |-> i <= Len(iter) /\ iter[i]], w, h))

\* data.set(i, bit) for every item of the iterator panics at the first index
\* outside the box; afterwards the item count must equal width * height.
FromBoolIter(iter, w, h) ==
    LET length == w * h
    IN  IF \E i \in 1..Len(iter) : i - 1 >= length
        THEN Panic(PanicIndex)
        ELSE IF Len(iter) # length
        THEN Panic(PanicLength)
        ELSE Ok(ImageHash([i \in 1..length |-> iter[i]], w, h))

\* ImageHash::shape: (number of rows, number of columns)
Shape(h) == <<h.height, h.width>>

(***************************************************************************)
(* ImageHash::distance                                                     *)
(***************************************************************************)
\* zip stops at the shorter of the two iterators
Zip(a, b) ==
    LET n == IF Len(a) <= Len(b) THEN Len(a) ELSE Len(b)
    IN  [i \in 1..n |-> <<a[i], b[i]>>]

\* Iterator::take
Take(s, n) == IF n >= Len(s) THEN s ELSE SubSeq(s, 1, n)

\* the fold counting only the bits set in the first hash and not in the second
DistanceStepOneSided(acc, pair) == acc + (IF pair[1] /\ ~pair[2] THEN 1 ELSE 0)

\* the fold counting the bits that agree
DistanceStepCountEqual(acc, pair) == acc + (IF pair[1] = pair[2] THEN 1 ELSE 0)

\* the closure of the fold: acc + (a != b) as usize
DistanceStep(acc, pair) == acc + (IF pair[1] # pair[2] THEN 1 ELSE 0)

RECURSIVE Fold(_, _, _)
Fold(s, i, acc) ==
    IF i > Len(s) THEN acc ELSE Fold(s, i + 1, DistanceStep(acc, s[i]))

\* the guard comparing the number of bits only
ShapesDifferBitCount(a, b) == Len(a.data) # Len(b.data)

\* self.shape() != other.shape()
ShapesDiffer(a, b) == Shape(a) # Shape(b)

Distance(a, b) ==
    IF ShapesDiffer(a, b)
    THEN Err(ErrDifferentSizes)
    ELSE Ok(Fold(Take(Zip(a.data, b.data), a.width * a.height), 1, 0))

(***************************************************************************)
(* ImageHash::encode                                                       *)
(***************************************************************************)
Pow2(n) == 2 ^ n

\* the value of a group of bits read most significant bit first (Msb0)
RECURSIVE BitsValue(_)
BitsValue(s) ==
    IF s = <<>>
    THEN 0
    ELSE 2 * BitsValue(SubSeq(s, 1, Len(s) - 1)) + (IF s[Len(s)] THEN 1 ELSE 0)

\* BitBox::<u8, Msb0>::as_raw_slice of a buffer whose length is a multiple of 8
RawSlice(buffer) ==
    [k \in 1..(Len(buffer) \div 8) |-> BitsValue(SubSeq(buffer, 8 * (k - 1) + 1, 8 * k))]

\* one lowercase hexadecimal digit, as a character
DigitChar(d) == IF d < 10 THEN 48 + d ELSE 87 + d

\* the digits of v in base 16, without leading zeros
RECURSIVE HexDigits(_)
HexDigits(v) ==
    IF v < 16 THEN <<DigitChar(v)>> ELSE HexDigits(v \div 16) \o <<DigitChar(v % 16)>>

\* format!("{:0Nx}", byte): zero-padded on the left up to the minimum width
FormatHex(byte, minWidth) ==
    LET digits == HexDigits(byte)
        fill   == IF Len(digits) >= minWidth THEN 0 ELSE minWidth - Len(digits)
    IN  [i \in 1..fill |-> 48] \o digits

\* the loop body without the special case of the first byte
WriteByteAlwaysTwo(result, byte, odd) == result \o FormatHex(byte, 2)

\* the body of the loop over the bytes of the buffer
WriteByte(result, byte, odd) ==
    IF odd /\ result = <<>>
    THEN result \o FormatHex(byte, 1)
    ELSE result \o FormatHex(byte, 2)

RECURSIVE WriteBytes(_, _, _, _)
WriteBytes(raw, i, odd, result) ==
    IF i > Len(raw)
    THEN result
    ELSE WriteBytes(raw, i + 1, odd, WriteByte(result, raw[i], odd))

\* the guard of encode's panic
EncodeGuard(h) == h.width = 0 /\ h.height = 0

\* (size * 8) - length, size the number of bytes
EncodePadding(length) == (((length + 7) \div 8) * 8) - length

Encode(h) ==
    IF EncodeGuard(h)
    THEN Panic(PanicEmptyMatrix)
    ELSE LET length  == h.width * h.height
             padding == EncodePadding(length)
             nibbles == (length + 3) \div 4
             odd     == nibbles % 2 = 1
             buffer  == [i \in 1..padding |-> FALSE] \o h.data
         IN  Ok(WriteBytes(RawSlice(buffer), 1, odd, <<>>))

(***************************************************************************)
(* ImageHash::decode                                                       *)
(***************************************************************************)
\* char::len_utf8
LenUtf8(c) == IF c < 128 THEN 1 ELSE IF c < 2048 THEN 2 ELSE IF c < 65536 THEN 3 ELSE 4

\* str::len: the length in bytes
RECURSIVE StrLen(_)
StrLen(s) == IF s = <<>> THEN 0 ELSE LenUtf8(Head(s)) + StrLen(Tail(s))

\* no digit
NoDigit == [some |-> FALSE, digit |-> 0]

\* a to_digit that knows the lower-case letters only
ToDigitLowerOnly(c) ==
    IF c \in 48..57 THEN [some |-> TRUE, digit |-> c - 48]
    ELSE IF c \in 97..102 THEN [some |-> TRUE, digit |-> c - 97 + 10]
    ELSE NoDigit

\* a to_digit that reads every character that is no hex digit as 0
ToDigitLenient(c) ==
    IF c \in 48..57 THEN [some |-> TRUE, digit |-> c - 48]
    ELSE IF c \in 97..102 THEN [some |-> TRUE, digit |-> c - 97 + 10]
    ELSE IF c \in 65..70 THEN [some |-> TRUE, digit |-> c - 65 + 10]
    ELSE [some |-> TRUE, digit |-> 0]

\* char::to_digit(16)
ToDigit(c) ==
    IF c \in 48..57 THEN [some |-> TRUE, digit |-> c - 48]
    ELSE IF c \in 97..102 THEN [some |-> TRUE, digit |-> c - 97 + 10]
    ELSE IF c \in 65..70 THEN [some |-> TRUE, digit |-> c - 65 + 10]
    ELSE NoDigit

\* the loop that reads two characters per byte; iter is what is left of the
\* character iterator and n the number of bytes still to read
RECURSIVE ReadBytes(_, _, _)
ReadBytes(iter, n, data) ==
    IF n = 0 THEN Ok(data)
    ELSE IF iter = <<>> THEN Panic(PanicUnwrapNone)
    ELSE IF ~ToDigit(iter[1]).some THEN Err(ErrInvalidDigit)
    ELSE IF Len(iter) < 2 THEN Panic(PanicUnwrapNone)
    ELSE IF ~ToDigit(iter[2]).some THEN Err(ErrInvalidDigit)
    ELSE LET hi    == ToDigit(iter[1]).digit
             lo    == ToDigit(iter[2]).digit
             value == (hi * 16 + lo) % 256
         IN  ReadBytes(SubSeq(iter, 3, Len(iter)), n - 1, Append(data, value))

\* one byte viewed least significant bit first
ByteBitsLsb0(v) == [j \in 1..8 |-> (v \div Pow2(j - 1)) % 2 = 1]

\* view_bits::<Msb0> of one byte
ByteBits(v) == [j \in 1..8 |-> (v \div Pow2(8 - j)) % 2 = 1]

\* view_bits::<Msb0> of the byte vector
RECURSIVE ViewBits(_)
ViewBits(data) ==
    IF data = <<>> THEN <<>> ELSE ByteBits(Head(data)) \o ViewBits(Tail(data))

\* the padding up to a whole digit instead of a whole byte
DecodePaddingNibble(length) == (4 - (length % 4)) % 4

\* (size * 8) - length, size the number of bytes
DecodePadding(length) == (((length + 7) \div 8) * 8) - length

\* a decode that looks at the string before it looks at the size
DecodeStringFirst(s, w, h) ==
    LET length  == w * h
        size    == (length + 7) \div 8
        nibbles == (length + 3) \div 4
        padding == DecodePadding(length)
        iter    == (IF nibbles % 2 = 1 THEN <<48>> ELSE <<>>) \o s
        read    == ReadBytes(iter, size, <<>>)
        view    == ViewBits(read.val)
    IN  IF StrLen(s) = 0 THEN Err(ErrEmptyString)
        ELSE IF length = 0 THEN Err(ErrZeroSize)
        ELSE IF StrLen(s) # nibbles THEN Err(ErrWrongLength)
        ELSE IF read.kind # "Ok" THEN read
        ELSE Ok(ImageHash(SubSeq(view, padding + 1, Len(view)), w, h))

\* ImageHash::decode
Decode(s, w, h) ==
    LET length  == w * h
        size    == (length + 7) \div 8
        nibbles == (length + 3) \div 4
        padding == DecodePadding(length)
        iter    == (IF nibbles % 2 = 1 THEN <<48>> ELSE <<>>) \o s
        read    == ReadBytes(iter, size, <<>>)
        view    == ViewBits(read.val)
    IN  IF length = 0 THEN Err(ErrZeroSize)
        ELSE IF StrLen(s) = 0 THEN Err(ErrEmptyString)
        ELSE IF StrLen(s) # nibbles THEN Err(ErrWrongLength)
        ELSE IF read.kind # "Ok" THEN read
        ELSE Ok(ImageHash(SubSeq(view, padding + 1, Len(view)), w, h))

(***************************************************************************)
(* The codec: a caller holds the arguments of a call (bits, width, height, *)
(* str), builds a hash with from_bool_iter, encodes it, and decodes either *)
(* the string encode returned or a string of its own.                      *)
(***************************************************************************)
\* the variables another part of the crate uses, at rest
MatrixIdle == matrix = <<>>

HasherIdle == cfg = NoCfg /\ pixels = <<>> /\ file = "none" /\ imgCalls = 0

GrayIdle == img = <<>> /\ space = "REC601" /\ grayBuf = <<>> /\ task = <<>>

ConvertIdle == filterCalls = 0

MathIdle == slice = <<>> /\ slice0 = <<>> /\ ax = "Row"

Init ==
    /\ pc = "start"
    /\ MatrixIdle /\ HasherIdle /\ GrayIdle /\ ConvertIdle /\ MathIdle
    /\ hash = NoHash
    /\ other = NoHash
    /\ ret = NoRet
    /\ width \in Dims
    /\ height \in Dims
    /\ \/ bits \in BoolSeqs(MaxBits) /\ str = <<>>
       \/ bits = <<>> /\ str \in Strs(MaxStrLen)

\* let hash = ImageHash::from_bool_iter(bits, width, height)
CallFromBoolIter ==
    /\ pc = "start"
    /\ ret' = FromBoolIter(bits, width, height)
    /\ hash' = IF ret'.kind = "Ok" THEN ret'.val ELSE NoHash
    /\ pc' = "from_bool_iter"
    /\ UNCHANGED <<bits, width, height, str, other>>
    /\ UNCHANGED <<matrixVars, convertVars, mathVars, hasherVars, grayVars>>

\* let str = hash.encode()
CallEncode ==
    /\ pc = "from_bool_iter"
    /\ ret.kind = "Ok"
    /\ ret' = Encode(hash)
    /\ str' = IF ret'.kind = "Ok" THEN ret'.val ELSE str
    /\ pc' = "encode"
    /\ UNCHANGED <<bits, width, height, hash, other>>
    /\ UNCHANGED <<matrixVars, convertVars, mathVars, hasherVars, grayVars>>

\* ImageHash::decode(str, width, height), on the caller's own string or on
\* the string encode returned
CallDecode ==
    /\ pc = "start" \/ (pc = "encode" /\ ret.kind = "Ok")
    /\ ret' = Decode(str, width, height)
    /\ pc' = "decode"
    /\ UNCHANGED <<bits, width, height, str, hash, other>>
    /\ UNCHANGED <<matrixVars, convertVars, mathVars, hasherVars, grayVars>>

Next == CallFromBoolIter \/ CallEncode \/ CallDecode

Spec == Init /\ [][Next]_vars

(***************************************************************************)
(* Distance: two hashes that from_bool_iter returned, and one call of      *)
(* hash.distance(&other).                                                  *)
(***************************************************************************)
DistanceOperands ==
    {r.val : r \in {q \in {FromBoolIter(b, w, h) :
                              b \in BoolSeqs(MaxDistBits), w \in Dims, h \in Dims} :
                    q.kind = "Ok"}}

InitDistance ==
    /\ pc = "start"
    /\ MatrixIdle /\ HasherIdle /\ GrayIdle /\ ConvertIdle /\ MathIdle
    /\ bits = <<>>
    /\ str = <<>>
    /\ width = 0
    /\ height = 0
    /\ ret = NoRet
    /\ hash \in DistanceOperands
    /\ other \in DistanceOperands

CallDistance ==
    /\ pc = "start"
    /\ ret' = Distance(hash, other)
    /\ pc' = "distance"
    /\ UNCHANGED <<bits, width, height, str, hash, other>>
    /\ UNCHANGED <<matrixVars, convertVars, mathVars, hasherVars, grayVars>>

NextDistance == CallDistance

SpecDistance == InitDistance /\ [][NextDistance]_vars

(***************************************************************************)
(* Reference notions the properties are stated with.                       *)
(***************************************************************************)
\* ceil(n / 4)
CeilDiv4(n) == IF n % 4 = 0 THEN n \div 4 ELSE (n \div 4) + 1

\* the number whose binary digits are b, first element most significant
RefNumber(b) ==
    LET RECURSIVE Sum(_)
        Sum(i) == IF i > Len(b) THEN 0
                  ELSE (IF b[i] THEN 2 ^ (Len(b) - i) ELSE 0) + Sum(i + 1)
    IN  Sum(1)

\* "0123456789abcdef"
LowerHex == <<48, 49, 50, 51, 52, 53, 54, 55, 56, 57, 97, 98, 99, 100, 101, 102>>

\* "0123456789ABCDEF"
UpperHex == <<48, 49, 50, 51, 52, 53, 54, 55, 56, 57, 65, 66, 67, 68, 69, 70>>

IsHexChar(c) == \E d \in 1..16 : LowerHex[d] = c \/ UpperHex[d] = c

\* the value of a hexadecimal digit character
HexVal(c) == (CHOOSE d \in 1..16 : LowerHex[d] = c \/ UpperHex[d] = c) - 1

\* ASCII case mappings of a string
ToLower(s) == [i \in 1..Len(s) |-> IF s[i] \in 65..90 THEN s[i] + 32 ELSE s[i]]

ToUpper(s) == [i \in 1..Len(s) |-> IF s[i] \in 97..122 THEN s[i] - 32 ELSE s[i]]

\* the four bits of a digit value, most significant first
NibbleBits(d) == <<(d \div 8) % 2 = 1, (d \div 4) % 2 = 1, (d \div 2) % 2 = 1, d % 2 = 1>>

\* the MSB-first 4-bit expansion of a string of hexadecimal digits
RECURSIVE Expand4(_)
Expand4(s) == IF s = <<>> THEN <<>> ELSE NibbleBits(HexVal(Head(s))) \o Expand4(Tail(s))

\* 1 for TRUE, 0 for FALSE
B(x) == x = 1

SameResult(x, y) == x.kind = y.kind /\ x.val = y.val

(***************************************************************************)
(* C1: round trip. For every width >= 1, height >= 1 and every hash h      *)
(* built from width*height booleans, decode(h.encode(), width, height)     *)
(* returns Ok(h): the same shape and the same bits in the same order.      *)
(***************************************************************************)
C1_RoundTrip ==
    (pc = "decode" /\ hash # NoHash /\ hash.width >= 1 /\ hash.height >= 1)
        => /\ width = hash.width /\ height = hash.height
           /\ ret.kind = "Ok"
           /\ ret.val = hash

\* a 3x3 hash (9 bits: neither a multiple of 4 nor of 8) with its first bit
\* set came back from decode(encode(h))
C1_Witness ==
    /\ pc = "decode"
    /\ hash # NoHash
    /\ Len(hash.data) = 9
    /\ hash.data[1]
    /\ ret.kind = "Ok"
    /\ ret.val = hash

\* the encodings the tests of imghash.rs expect: "24f0", "351f" and "1"
C2_TestVectors ==
    /\ Encode(ImageHash(<<B(0), B(0), B(1), B(0), B(0), B(1), B(0), B(0),
                          B(1), B(1), B(1), B(1), B(0), B(0), B(0), B(0)>>, 4, 4))
         = Ok(<<50, 52, 102, 48>>)
    /\ Encode(ImageHash(<<B(0), B(1), B(1), B(0), B(1), B(0), B(1), B(0), B(0), B(0),
                          B(1), B(1), B(1), B(1), B(1)>>, 5, 3))
         = Ok(<<51, 53, 49, 102>>)
    /\ Encode(ImageHash(<<B(1)>>, 1, 1)) = Ok(<<49>>)

(***************************************************************************)
(* C2: for a hash of L = width*height >= 1 bits encode returns exactly     *)
(* ceil(L/4) lowercase hex digits spelling the number whose binary digits  *)
(* are the row-major bits, first bit most significant, and no leading "0"  *)
(* when the digit count is odd; 4x4 0010 0100 1111 0000 gives "24f0", 5x3  *)
(* 01101 01000 11111 gives "351f", a single true bit gives "1".            *)
(***************************************************************************)
C2_EncodeDigits ==
    /\ C2_TestVectors
    /\ (pc = "encode" /\ hash.width * hash.height >= 1)
        => LET L == hash.width * hash.height
               n == CeilDiv4(L)
               N == RefNumber(hash.data)
           IN  /\ ret.kind = "Ok"
               /\ Len(ret.val) = n
               /\ \A j \in 1..n : ret.val[j] = LowerHex[((N \div (16 ^ (n - j))) % 16) + 1]

\* a 9-bit hash was encoded to three digits, the first one not "0"
C2_Witness ==
    /\ pc = "encode"
    /\ Len(hash.data) = 9
    /\ ret.kind = "Ok"
    /\ Len(ret.val) = 3
    /\ ret.val[1] = 49

(***************************************************************************)
(* C3: encode fails (panics, returns no string) for every hash whose       *)
(* width*height is 0, also one built by from_bool_iter from the empty      *)
(* sequence with exactly one dimension 0.                                  *)
(***************************************************************************)
C3_EncodeRejectsZeroSize ==
    (pc = "encode" /\ hash.width * hash.height = 0) => ret.kind = "Panic"

(***************************************************************************)
(* C4: decode(s, width, height) returns Ok exactly when width*height > 0,  *)
(* s has exactly ceil(width*height/4) characters and every character is a  *)
(* hex digit 0-9, a-f, A-F; otherwise it returns Err. The upper-case and   *)
(* the lower-case spelling of a string decode to equal results.            *)
(***************************************************************************)
C4_DecodeOkExactly ==
    pc = "decode"
        => /\ ret.kind \in {"Ok", "Err"}
           /\ ret.kind = "Ok"
                <=> /\ width * height > 0
                    /\ Len(str) = CeilDiv4(width * height)
                    /\ \A i \in 1..Len(str) : IsHexChar(str[i])
           /\ SameResult(Decode(ToUpper(str), width, height),
                         Decode(ToLower(str), width, height))
           /\ ret.kind = "Ok" => SameResult(Decode(ToLower(str), width, height), ret)

\* a string with an upper-case hex letter was decoded
C4_Witness ==
    /\ pc = "decode"
    /\ hash = NoHash
    /\ ret.kind = "Ok"
    /\ \E i \in 1..Len(str) : str[i] \in 65..70

(***************************************************************************)
(* C5: on success decode yields a hash of shape (height, width) whose bits *)
(* are the last L = width*height bits of the MSB-first 4-bit expansion of  *)
(* s; when L mod 4 # 0 exactly the leading 4 - (L mod 4) bits of the first *)
(* digit are discarded whatever their value, otherwise none is.            *)
(***************************************************************************)
C5_DecodeBits ==
    (pc = "decode" /\ ret.kind = "Ok")
        => LET L    == width * height
               exp  == Expand4(str)
               drop == IF L % 4 = 0 THEN 0 ELSE 4 - (L % 4)
           IN  /\ Shape(ret.val) = <<height, width>>
               /\ Len(exp) = L + drop
               /\ ret.val.data = SubSeq(exp, drop + 1, Len(exp))
               /\ \A c \in Alphabet :
                    (IsHexChar(c) /\ HexVal(c) % (2 ^ (4 - drop)) = HexVal(str[1]) % (2 ^ (4 - drop)))
                        => SameResult(Decode(<<c>> \o Tail(str), width, height), ret)

\* a string whose first digit has a discarded bit set was decoded
C5_Witness ==
    /\ pc = "decode"
    /\ hash = NoHash
    /\ ret.kind = "Ok"
    /\ (width * height) % 4 = 1
    /\ HexVal(str[1]) >= 8
    /\ Len(str) = 3

(***************************************************************************)
(* C6: decode reports each validation failure with its own reason.         *)
(***************************************************************************)
\* every reason decode gives for an error, over the strings and sizes of the
\* model
DecodeErrorReasons ==
    {r.val : r \in {q \in {Decode(s, w, h) : s \in Strs(MaxStrLen), w \in Dims, h \in Dims} :
                    q.kind = "Err"}}

\* C6 as claimed: zero dimension, empty input, too short/long, invalid
\* character and a bit-count/shape mismatch after decoding are five distinct
\* error outcomes of decode that a caller can branch on.
C6_FiveDistinctErrors ==
    pc = "decode" => Cardinality(DecodeErrorReasons) = 5

\* C6 as amended: decode has exactly four error outcomes, each with its own
\* reason that is given only for its own failure (zero dimension, empty
\* input, too short/long, invalid character); it has no bit-count/shape
\* mismatch outcome, because whenever it returns Ok the reconstructed bit
\* count equals width*height.
C6_FourDistinctErrors ==
    pc = "decode"
        => /\ DecodeErrorReasons = {ErrZeroSize, ErrEmptyString, ErrWrongLength, ErrInvalidDigit}
           /\ Cardinality(DecodeErrorReasons) = 4
           /\ ret.kind \in {"Ok", "Err"}
           /\ ret.kind = "Ok" => Len(ret.val.data) = width * height
           /\ ret.kind = "Err"
                => /\ ret.val \in DecodeErrorReasons
                   /\ ret.val = ErrZeroSize => width * height = 0
                   /\ ret.val = ErrEmptyString => str = <<>>
                   /\ ret.val = ErrWrongLength => StrLen(str) # CeilDiv4(width * height)
                   /\ ret.val = ErrInvalidDigit => \E i \in 1..Len(str) : ~IsHexChar(str[i])

\* decode refused a string of the right length for an invalid character
C6_Witness ==
    /\ pc = "decode"
    /\ ret.kind = "Err"
    /\ ret.val = ErrInvalidDigit
    /\ StrLen(str) = CeilDiv4(width * height)

(***************************************************************************)
(* C7: for two hashes of the same shape a.distance(b) is Ok(d), d the      *)
(* number of indices i in 0..width*height-1 at which bit i of a differs    *)
(* from bit i of b; hence 0 <= d <= width*height.                          *)
(***************************************************************************)
C7_HammingDistance ==
    (pc = "distance" /\ Shape(hash) = Shape(other))
        => LET L == hash.width * hash.height
           IN  /\ ret.kind = "Ok"
               /\ ret.val = Cardinality({i \in 1..L : hash.data[i] # other.data[i]})
               /\ 0 <= ret.val /\ ret.val <= L

\* two 2x3 hashes that differ in some positions and agree in others in both
\* directions
C7_Witness ==
    /\ pc = "distance"
    /\ Shape(hash) = <<2, 3>>
    /\ Shape(other) = <<2, 3>>
    /\ ret.kind = "Ok"
    /\ ret.val = 4
    /\ \E i \in 1..6 : hash.data[i] /\ ~other.data[i]
    /\ \E i \in 1..6 : ~hash.data[i] /\ other.data[i]

(***************************************************************************)
(* C8: distance is symmetric: a.distance(b) and b.distance(a) are the same *)
(* result, the same Ok value or both an error, whatever the shapes.        *)
(***************************************************************************)
C8_DistanceSymmetric ==
    pc = "distance" => SameResult(ret, Distance(other, hash))

\* the distance of two different hashes, the one with more bits set than
\* the other
C8_Witness ==
    /\ pc = "distance"
    /\ ret.kind = "Ok"
    /\ ret.val = 3
    /\ \A i \in 1..Len(hash.data) : other.data[i] => hash.data[i]

(***************************************************************************)
(* C9: a.distance(a) is Ok(0), and so is the distance of two separately    *)
(* built hashes with the same shape and the same bits.                     *)
(***************************************************************************)
C9_DistanceIdentity ==
    (pc = "distance" /\ hash.width = other.width /\ hash.height = other.height
                     /\ hash.data = other.data)
        => ret.kind = "Ok" /\ ret.val = 0

\* the distance of a 3x2 hash with bits of both values to an equal hash
C9_Witness ==
    /\ pc = "distance"
    /\ hash = other
    /\ Shape(hash) = <<3, 2>>
    /\ \E i, j \in 1..6 : hash.data[i] /\ ~hash.data[j]
    /\ ret.kind = "Ok"

(***************************************************************************)
(* C10: distance on two hashes whose shapes differ returns a recoverable   *)
(* Err, never an Ok value and never a panic, also when the two hashes have *)
(* the same number of bits (2x3 against 3x2).                              *)
(***************************************************************************)
C10_ShapeMismatchIsErr ==
    (pc = "distance" /\ (hash.width # other.width \/ hash.height # other.height))
        => ret.kind = "Err" /\ ret.val = ErrDifferentSizes

\* a 2x3 hash against a 3x2 hash
C10_Witness ==
    /\ pc = "distance"
    /\ Shape(hash) = <<2, 3>>
    /\ Shape(other) = <<3, 2>>
    /\ ret.kind = "Err"

(***************************************************************************)
(* ImageHash::new and the accessors iter_bool, matrix, flatten             *)
(***************************************************************************)
PanicMatrixEmpty == "Matrix cannot be empty"

PanicRowLength == "All rows must have the same length"

PanicChunkSize == "chunk size must be non-zero"

\* the smaller of two numbers
Min(a, b) == IF a <= b THEN a ELSE b

\* slice::chunks(n) for n > 0: pieces of n elements, the last one shorter
Chunks(s, n) ==
    [k \in 1..((Len(s) + n - 1) \div n) |-> SubSeq(s, (k - 1) * n + 1, Min(k * n, Len(s)))]

\* flat_map / flatten: the rows one after the other
RECURSIVE Flatten(_)
Flatten(m) == IF m = <<>> THEN <<>> ELSE Head(m) \o Flatten(Tail(m))

New(m) ==
    IF m = <<>> \/ m[1] = <<>>
    THEN Panic(PanicMatrixEmpty)
    ELSE LET w == Len(m[1])
             h == Len(m)
         IN  IF \E r \in 1..Len(m) : Len(m[r]) # w
             THEN Panic(PanicRowLength)
             ELSE FromBoolIter(Flatten(m), w, h)

\* ImageHash::iter_bool: the bits in the order of the box
IterBool(h) == h.data

\* matrix() chunking by the number of rows
MatrixOfByHeight(h) ==
    IF h.height = 0 THEN Panic(PanicChunkSize) ELSE Ok(Chunks(h.data, h.height))

\* ImageHash::matrix
MatrixOf(h) ==
    IF h.width = 0 THEN Panic(PanicChunkSize) ELSE Ok(Chunks(h.data, h.width))

\* ImageHash::flatten
FlattenOf(h) == Ok(IterBool(h))

(***************************************************************************)
(* A hash built by ImageHash::new from a matrix and then read, any number  *)
(* of times and in any order, through its &self methods.                   *)
(***************************************************************************)
\* most rows and most columns of a matrix handed to ImageHash::new
MaxRows == 3

MaxCols == 3

\* matrices of at most MaxRows rows, the rows of any lengths up to MaxCols
Matrices == UNION {[1..r -> BoolSeqs(MaxCols)] : r \in 0..MaxRows}

InitMatrix ==
    /\ pc = "start"
    /\ HasherIdle /\ GrayIdle /\ ConvertIdle /\ MathIdle
    /\ matrix \in Matrices
    /\ bits = <<>> /\ str = <<>> /\ width = 0 /\ height = 0
    /\ hash = NoHash
    /\ other = NoHash
    /\ ret = NoRet

\* let hash = ImageHash::new(matrix)
CallNew ==
    /\ pc = "start"
    /\ ret' = New(matrix)
    /\ hash' = IF ret'.kind = "Ok" THEN ret'.val ELSE NoHash
    /\ pc' = "new"
    /\ UNCHANGED <<bits, width, height, str, other, matrixVars, convertVars, mathVars, hasherVars, grayVars>>

\* a call of a method that takes &self: only the result is new
Read(op, result) ==
    /\ pc # "start"
    /\ hash # NoHash
    /\ ret' = result
    /\ pc' = op
    /\ UNCHANGED <<bits, width, height, str, hash, other, matrixVars, convertVars, mathVars, hasherVars, grayVars>>

ReadMatrix == Read("matrix", MatrixOf(hash))

ReadFlatten == Read("flatten", FlattenOf(hash))

ReadShape == Read("shape", Ok(Shape(hash)))

ReadEncode == Read("encode", Encode(hash))

ReadDistance == Read("distance", Distance(hash, hash))

NextMatrix ==
    CallNew \/ ReadMatrix \/ ReadFlatten \/ ReadShape \/ ReadEncode \/ ReadDistance

SpecMatrix == InitMatrix /\ [][NextMatrix]_vars

(***************************************************************************)
(* C11: every ImageHash a public constructor returns (ImageHash::new,      *)
(* ImageHash::from_bool_iter, a successful ImageHash::decode) has          *)
(* width > 0, height > 0 and holds exactly width*height bits.              *)
(***************************************************************************)
C11_ConstructorsKeepInvariant ==
    (pc \in {"new", "from_bool_iter", "decode"} /\ ret.kind = "Ok")
        => /\ ret.val.width > 0
           /\ ret.val.height > 0
           /\ Len(ret.val.data) = ret.val.width * ret.val.height

(***************************************************************************)
(* C12: bits are stored and read back in row-major order and are never     *)
(* changed by reading: for every rectangular non-empty matrix m,           *)
(* new(m).matrix() = m, flatten() and iter_bool() yield row 0 left to      *)
(* right, then row 1, and so on, shape() = (rows, columns), and calls of   *)
(* encode, distance, matrix, flatten or shape leave these results as they  *)
(* are.                                                                    *)
(***************************************************************************)
\* the elements of a rectangular matrix in row-major order
RowMajor(m) ==
    LET cols == Len(m[1])
    IN  [i \in 1..(Len(m) * cols) |-> m[((i - 1) \div cols) + 1][((i - 1) % cols) + 1]]

C12_RowMajorReadBack ==
    (pc \in {"new", "matrix", "flatten", "shape", "encode", "distance"} /\ hash # NoHash)
        => /\ MatrixOf(hash) = Ok(matrix)
           /\ FlattenOf(hash) = Ok(RowMajor(matrix))
           /\ IterBool(hash) = RowMajor(matrix)
           /\ Shape(hash) = <<Len(matrix), Len(matrix[1])>>
           /\ ret.kind = "Ok"
           /\ pc = "matrix" => ret.val = matrix
           /\ pc = "flatten" => ret.val = RowMajor(matrix)
           /\ pc = "shape" => ret.val = <<Len(matrix), Len(matrix[1])>>
           /\ pc = "distance" => ret.val = 0

\* matrix() returned the 2x3 matrix the hash was built from, whose rows differ
C12_Witness ==
    /\ pc = "matrix"
    /\ Len(matrix) = 2
    /\ Len(matrix[1]) = 3
    /\ matrix[1] # matrix[2]
    /\ ret.kind = "Ok"
    /\ ret.val = matrix

(***************************************************************************)
(* math.rs.  An f64 is held as a whole number of units: a pixel byte b is  *)
(* the number b, one pass of dct2 multiplies the unit by CosScale, and the *)
(* cosine is taken from a table rounded to 1/CosScale.                     *)
(***************************************************************************)
CosScale == 1000

\* CosTable[n][j + 1] is cos(pi * j / (2n)) * CosScale for 0 <= j <= n
CosTable ==
    <<<<1000, 0>>,
      <<1000, 707, 0>>,
      <<1000, 866, 500, 0>>,
      <<1000, 924, 707, 383, 0>>,
      <<1000, 951, 809, 588, 309, 0>>,
      <<1000, 966, 866, 707, 500, 259, 0>>,
      <<1000, 975, 901, 782, 623, 434, 223, 0>>,
      <<1000, 981, 924, 831, 707, 556, 383, 195, 0>>,
      <<1000, 985, 940, 866, 766, 643, 500, 342, 174, 0>>,
      <<1000, 988, 951, 891, 809, 707, 588, 454, 309, 156, 0>>,
      <<1000, 990, 959, 910, 841, 756, 655, 541, 415, 282, 142, 0>>,
      <<1000, 991, 966, 924, 866, 793, 707, 609, 500, 383, 259, 131, 0>>>>

\* (numerator / denominator).cos() for numerator = pi * m, denominator = 2n
Cos(m, n) ==
    LET r == m % (4 * n)
        s == IF r > 2 * n THEN 4 * n - r ELSE r
    IN  IF s <= n THEN CosTable[n][s + 1] ELSE 0 - CosTable[n][2 * n - s + 1]

\* collect(): the values of an iterator held in a vector
Vec(f) == f \o <<>>

\* Iterator::sum
RECURSIVE Sum(_)
Sum(s) == IF s = <<>> THEN 0 ELSE Head(s) + Sum(Tail(s))

\* a dct2 without the factor 2
Dct2Unscaled(input) ==
    IF input = <<>>
    THEN <<>>
    ELSE LET n == Len(input)
         IN  Vec([k \in 1..n |->
                 Sum([i \in 1..n |-> input[i] * Cos((k - 1) * (2 * (i - 1) + 1), n)])])

\* math::dct2
Dct2(input) ==
    IF input = <<>>
    THEN <<>>
    ELSE LET n == Len(input)
         IN  Vec([k \in 1..n |->
                 2 * Sum([i \in 1..n |-> input[i] * Cos((k - 1) * (2 * (i - 1) + 1), n)])])

\* math::transpose
Transpose(input) ==
    LET rows == Len(input)
        cols == Len(input[1])
    IN  Vec([c \in 1..cols |-> Vec([r \in 1..rows |-> input[r][c]])])

\* math::dct2_over_matrix, axis "Row" or "Column"
Dct2OverMatrix(input, axis) ==
    IF input = <<>> \/ input[1] = <<>>
    THEN input
    ELSE LET m == IF axis = "Column" THEN Transpose(input) ELSE input
             dct_matrix == Vec([r \in 1..Len(m) |-> Dct2(m[r])])
         IN  IF axis = "Column" THEN Transpose(dct_matrix) ELSE dct_matrix

\* Option<f64>
None == [kind |-> "None", val |-> 0]

Some(v) == [kind |-> "Some", val |-> v]

\* sort_by(partial_cmp)
Sorted(s) == SortSeq(s, LAMBDA a, b : a < b)

\* a median that takes the upper of the two middle values
MedianUpperMiddle(input) ==
    IF input = <<>> THEN None ELSE Some(Sorted(input)[Len(input) \div 2 + 1])

\* math::median; the sum of the two middle values is even wherever the model
\* calls it (outputs of dct2, whole numbers held in halves), so the halving
\* is exact
Median(input) ==
    IF input = <<>>
    THEN None
    ELSE LET sorted == Sorted(input)
             mid == Len(sorted) \div 2
         IN  IF Len(sorted) % 2 = 0
             THEN Some((sorted[mid] + sorted[mid + 1]) \div 2)
             ELSE Some(sorted[mid + 1])

(***************************************************************************)
(* u32 multiplication, digit by digit in base 256 so that no intermediate  *)
(* value leaves the range of the model's integers.                         *)
(***************************************************************************)
PanicMulOverflow == "attempt to multiply with overflow"

PanicDivZero == "attempt to divide by zero"

PanicSelectNth == "partition_at_index index 0 greater than length of slice 0"

PanicResize == "resize to an empty image"

\* digit i (0 the lowest) of a in base 256
Digit(a, i) == (a \div (256 ^ i)) % 256

\* the sum of the digit products that land in column k of a * b
Column(a, b, k) ==
    Sum([i \in 1..4 |->
            IF k - (i - 1) \in 0..3 THEN Digit(a, i - 1) * Digit(b, k - (i - 1)) ELSE 0])

RECURSIVE Carry(_, _, _)
Carry(a, b, k) ==
    IF k = 0 THEN 0 ELSE (Column(a, b, k - 1) + Carry(a, b, k - 1)) \div 256

ProductDigit(a, b, k) == (Column(a, b, k) + Carry(a, b, k)) % 256

\* a * b in u32: the low 32 bits and whether the product left u32; factors
\* below 2^15 have a product below 2^30, which is multiplied directly
MulU32(a, b) ==
    IF a < 32768 /\ b < 32768
    THEN [val |-> a * b, overflow |-> FALSE]
    ELSE [val |-> Sum([k \in 1..4 |-> ProductDigit(a, b, k - 1) * (256 ^ (k - 1))]),
          overflow |-> \E k \in 4..7 : ProductDigit(a, b, k) # 0]

\* a * b as the build computes it: a panic where overflow is checked (debug),
\* the wrapped product where it is not (release)
Mul(a, b, checked) ==
    IF MulU32(a, b).overflow /\ checked
    THEN Panic(PanicMulOverflow)
    ELSE Ok(MulU32(a, b).val)

(***************************************************************************)
(* The hashers.  A hasher is the record of its fields (factor is 1 where   *)
(* the struct has none) with the build's overflow checking; converted is   *)
(* what its convert call returns, the bytes of the resized grayscale image *)
(* in row-major order.                                                     *)
(***************************************************************************)
\* the width and height handed to convert, or the panic of computing them
Target(c) ==
    IF c.kind = "perceptual"
    THEN LET tw == Mul(c.width, c.factor, c.checked)
             th == Mul(c.height, c.factor, c.checked)
         IN  IF tw.kind = "Panic" THEN tw
             ELSE IF th.kind = "Panic" THEN th
             ELSE Ok(<<tw.val, th.val>>)
    ELSE IF c.kind = "difference"
    THEN Ok(<<c.width + 1, c.height>>)
    ELSE Ok(<<c.width, c.height>>)

\* the mean rounded to the nearest whole number
MeanRounded(bytes, n) == (2 * Sum(bytes) + n) \div (2 * n)

\* fold(0, |acc, x| acc + x) / n in usize
Mean(bytes, n) == Sum(bytes) \div n

\* AverageHasher::hash_from_img after the convert call
AverageHash(c, bytes) ==
    LET n == Mul(c.width, c.height, c.checked)
    IN  IF n.kind = "Panic" THEN n
        ELSE IF n.val = 0 THEN Panic(PanicDivZero)
        ELSE IF Len(bytes) > n.val THEN Panic(PanicIndex)
        ELSE LET mean == Mean(bytes, n.val)
                 bitVec == [i \in 1..n.val |-> i <= Len(bytes) /\ bytes[i] > mean]
             IN  IF c.width = 0
                 THEN Panic(PanicChunkSize)
                 ELSE New(Chunks(bitVec, c.width))

\* row.windows(2).map(|window| window[0] <= window[1])
WindowsLessOrEqual(row) ==
    [j \in 1..(IF Len(row) < 2 THEN 0 ELSE Len(row) - 1) |-> row[j] <= row[j + 1]]

\* row.windows(2).map(|window| window[0] < window[1])
WindowsLess(row) ==
    [j \in 1..(IF Len(row) < 2 THEN 0 ELSE Len(row) - 1) |-> row[j] < row[j + 1]]

\* DifferenceHasher::hash_from_img after the convert call
DifferenceHash(c, bytes) ==
    LET compare_matrix == Chunks(bytes, c.width + 1)
    IN  FromBoolIter(Flatten([r \in 1..Len(compare_matrix) |-> WindowsLess(compare_matrix[r])]),
                     c.width, c.height)

\* select_nth_unstable(index).1: the element that sorting puts at index
SelectNth(values, index) == Sorted(values)[index + 1]

\* MedianHasher::hash_from_img after the convert call
MedianHash(c, bytes) ==
    LET len == Len(bytes)
    IN  IF len = 0
        THEN Panic(PanicSelectNth)
        ELSE LET median == SelectNth(bytes, len \div 2)
             IN  FromBoolIter([i \in 1..len |-> bytes[i] > median], c.width, c.height)

\* the crop taking width rows of height columns
CropTransposed(dct_matrix, c) ==
    Vec([i \in 1..Min(c.width, Len(dct_matrix)) |-> Take(dct_matrix[i], c.height)])

\* iter().take(height).map(|row| row.iter().take(width))
Crop(dct_matrix, c) ==
    Vec([i \in 1..Min(c.height, Len(dct_matrix)) |-> Take(dct_matrix[i], c.width)])

\* PerceptualHasher::hash_from_img after the convert call
PerceptualHash(c, bytes) ==
    LET tw == Target(c).val[1]
    IN  IF tw = 0
        THEN Panic(PanicChunkSize)
        ELSE LET high_freq_matrix == Chunks(bytes, tw)
                 dct_matrix ==
                     Dct2OverMatrix(Dct2OverMatrix(high_freq_matrix, "Column"), "Row")
                 scaled_matrix == Crop(dct_matrix, c)
                 median == Median(Flatten(scaled_matrix))
             IN  IF median.kind = "None"
                 THEN Panic(PanicUnwrapNone)
                 ELSE New([i \in 1..c.height |-> [j \in 1..c.width |->
                          /\ i <= Len(scaled_matrix)
                          /\ j <= Len(scaled_matrix[i])
                          /\ scaled_matrix[i][j] > median.val]])

\* ImageHasher::hash_from_img: the arguments of convert, convert, the bits
HashFromImg(c, converted) ==
    IF Target(c).kind = "Panic" THEN Target(c)
    ELSE IF converted.kind = "Panic" THEN converted
    ELSE IF c.kind = "average" THEN AverageHash(c, converted.val)
    ELSE IF c.kind = "difference" THEN DifferenceHash(c, converted.val)
    ELSE IF c.kind = "median" THEN MedianHash(c, converted.val)
    ELSE PerceptualHash(c, converted.val)

ErrIo == "IoError"

ErrUnsupported == "Unsupported"

ErrDecoding == "Decoding"

\* Reader::open(path)?.decode() on the file behind the path
OpenDecode(f) ==
    IF f = "missing" THEN Err(ErrIo)
    ELSE IF f = "text" THEN Err(ErrUnsupported)
    ELSE IF f = "corrupt" THEN Err(ErrDecoding)
    ELSE Ok("img")

\* hash_from_path hashing whatever the decoder left behind
HashFromPathLenient(c, f, converted) ==
    IF OpenDecode(f).kind = "Err" /\ f # "corrupt"
    THEN OpenDecode(f)
    ELSE LET h == HashFromImg(c, converted)
         IN  IF h.kind = "Panic" THEN h ELSE Ok(h.val)

\* ImageHasher::hash_from_path
HashFromPath(c, f, converted) ==
    IF OpenDecode(f).kind = "Err"
    THEN OpenDecode(f)
    ELSE LET h == HashFromImg(c, converted)
         IN  IF h.kind = "Panic" THEN h ELSE Ok(h.val)

(***************************************************************************)
(* One call of hash_from_img or of hash_from_path on a hasher.             *)
(***************************************************************************)
\* largest width and height of a hasher, largest factor, most pixels of a
\* converted image
MaxHashDim == 3

MaxFactor == 2

MaxPixels == 8

\* the bytes a converted image is made of
PixelValues == {0, 1, 3}

\* 2^16, the least width whose product with itself leaves u32
HugeDim == 256 * 256

Hasher(k, w, h, f, ch) ==
    [kind |-> k, width |-> w, height |-> h, factor |-> f, checked |-> ch]

\* the hashers of small size, and perceptual hashers whose width * factor
\* leaves u32
Configs ==
    {c \in {Hasher(k, w, h, 1, ch) :
                k \in {"average", "difference", "median"},
                w \in 1..MaxHashDim, h \in 1..MaxHashDim, ch \in BOOLEAN}
           \cup {Hasher("perceptual", w, h, f, ch) :
                w \in 1..MaxHashDim, h \in 1..MaxHashDim, f \in 1..MaxFactor, ch \in BOOLEAN} :
        Target(c).val[1] * Target(c).val[2] <= MaxPixels}
    \cup {Hasher("perceptual", HugeDim, h, HugeDim, ch) : h \in 1..MaxHashDim, ch \in BOOLEAN}

\* no image was decoded, no convert call was made
NotConverted == Ok(<<>>)

\* what convert(img, tw, th, color_space) returns: the resize filter gives
\* every byte of the tw x th image; for an empty target the resize of the
\* image crate either returns the empty image or panics
ConvertOutcomes(tw, th) ==
    IF tw = 0 \/ th = 0
    THEN {Ok(<<>>), Panic(PanicResize)}
    ELSE {Ok(b) : b \in [1..(tw * th) -> PixelValues]}

Files == {"missing", "text", "corrupt", "image"}

InitHasher ==
    /\ pc = "start"
    /\ MatrixIdle /\ GrayIdle /\ ConvertIdle /\ MathIdle
    /\ bits = <<>> /\ str = <<>> /\ width = 0 /\ height = 0
    /\ hash = NoHash
    /\ other = NoHash
    /\ ret = NoRet
    /\ imgCalls = 0
    /\ cfg \in Configs
    /\ file \in Files
    /\ IF file = "image" /\ Target(cfg).kind = "Ok"
       THEN pixels \in ConvertOutcomes(Target(cfg).val[1], Target(cfg).val[2])
       ELSE pixels = NotConverted

\* hasher.hash_from_img(&img)
CallHashFromImg ==
    /\ pc = "start"
    /\ file = "image"
    /\ ret' = HashFromImg(cfg, pixels)
    /\ hash' = IF ret'.kind = "Ok" THEN ret'.val ELSE NoHash
    /\ imgCalls' = imgCalls + 1
    /\ pc' = "hash_from_img"
    /\ UNCHANGED <<bits, width, height, str, other, cfg, pixels, file, matrixVars, convertVars, mathVars, grayVars>>

\* hasher.hash_from_path(path)
CallHashFromPath ==
    /\ pc = "start"
    /\ ret' = HashFromPath(cfg, file, pixels)
    /\ hash' = IF ret'.kind = "Ok" THEN ret'.val ELSE NoHash
    /\ imgCalls' = IF OpenDecode(file).kind = "Ok" THEN imgCalls + 1 ELSE imgCalls
    /\ pc' = "hash_from_path"
    /\ UNCHANGED <<bits, width, height, str, other, cfg, pixels, file, matrixVars, convertVars, mathVars, grayVars>>

NextHasher == CallHashFromImg \/ CallHashFromPath

SpecHasher == InitHasher /\ [][NextHasher]_vars

(***************************************************************************)
(* C13: AverageHasher: with p the width*height bytes the convert step      *)
(* gave (row-major) and n their number, the mean is the sum of the bytes   *)
(* divided by n with truncation, and bit i of the hash is true exactly     *)
(* when p[i] is strictly greater than that mean; a byte equal to the mean  *)
(* gives false.                                                            *)
(***************************************************************************)
\* the sum of the first k values of p
RECURSIVE PrefixSum(_, _)
PrefixSum(p, k) == IF k = 0 THEN 0 ELSE PrefixSum(p, k - 1) + p[k]

\* the whole number m with m * n <= sum of p < (m + 1) * n
TruncatedMean(p) ==
    CHOOSE m \in 0..255 :
        /\ m * Len(p) <= PrefixSum(p, Len(p))
        /\ PrefixSum(p, Len(p)) < (m + 1) * Len(p)

C13_AverageBits ==
    (pc = "hash_from_img" /\ cfg.kind = "average" /\ ret.kind = "Ok")
        => LET p == pixels.val
           IN  /\ Len(p) = cfg.width * cfg.height
               /\ Len(ret.val.data) = Len(p)
               /\ ret.val.width = cfg.width
               /\ ret.val.height = cfg.height
               /\ \A i \in 1..Len(p) : ret.val.data[i] <=> (p[i] > TruncatedMean(p))
               /\ \A i \in 1..Len(p) : p[i] = TruncatedMean(p) => ~ret.val.data[i]

\* the bytes 0, 1 have the mean 1/2, truncated to 0: the byte 1 is above it,
\* the byte 0 is equal to it
C13_Witness ==
    /\ pc = "hash_from_img"
    /\ cfg.kind = "average"
    /\ pixels = Ok(<<0, 1>>)
    /\ ret.kind = "Ok"
    /\ ret.val.data = <<FALSE, TRUE>>

(***************************************************************************)
(* C14: DifferenceHasher: the image is converted to (width+1) x height     *)
(* bytes, and for every row r and column j < width the bit at (r, j) is    *)
(* true exactly when pixel[r][j] < pixel[r][j+1]; no comparison crosses a  *)
(* row boundary and the hash has exactly width*height bits, row-major.     *)
(***************************************************************************)
C14_DifferenceBits ==
    (pc = "hash_from_img" /\ cfg.kind = "difference" /\ ret.kind = "Ok")
        => LET p == pixels.val
               w == cfg.width
               h == cfg.height
           IN  /\ Len(p) = (w + 1) * h
               /\ Len(ret.val.data) = w * h
               /\ Shape(ret.val) = <<h, w>>
               /\ \A r \in 0..(h - 1) : \A j \in 0..(w - 1) :
                      ret.val.data[r * w + j + 1]
                          <=> (p[r * (w + 1) + j + 1] < p[r * (w + 1) + j + 2])

\* two rows of three bytes: equal neighbours give false, and the rise from
\* the end of the first row to the start of the second gives no bit
C14_Witness ==
    /\ pc = "hash_from_img"
    /\ cfg.kind = "difference"
    /\ cfg.width = 2
    /\ cfg.height = 2
    /\ pixels = Ok(<<1, 1, 0, 3, 0, 1>>)
    /\ ret.kind = "Ok"
    /\ ret.val.data = <<FALSE, FALSE, FALSE, TRUE>>

(***************************************************************************)
(* C15: MedianHasher: the threshold is the standard median of the          *)
(* width*height bytes (the middle value of the sorted bytes for an odd     *)
(* count, the average of the two middle values for an even count), and     *)
(* bit i is true exactly when byte i is strictly greater than it.          *)
(***************************************************************************)
\* twice the standard median of s: the number of values below it and the
\* number above it are both at most half the count
TwiceMedian(s) ==
    LET srt == Sorted(s)
        n == Len(s)
    IN  IF n % 2 = 1 THEN 2 * srt[(n + 1) \div 2] ELSE srt[n \div 2] + srt[n \div 2 + 1]

C15_StandardMedianBits ==
    (pc = "hash_from_img" /\ cfg.kind = "median" /\ ret.kind = "Ok")
        => LET p == pixels.val
           IN  /\ Len(ret.val.data) = Len(p)
               /\ \A i \in 1..Len(p) : ret.val.data[i] <=> (2 * p[i] > TwiceMedian(p))

(***************************************************************************)
(* C16: PerceptualHasher: the image is converted to (width*factor) x       *)
(* (height*factor) bytes, the DCT is applied along the columns and then    *)
(* along the rows, the top-left block of height rows and width columns is  *)
(* kept, the standard median of its width*height coefficients is taken,    *)
(* and bit (i, j) is true exactly when the coefficient at row i, column j  *)
(* is strictly greater than that median; the hash has shape (height,       *)
(* width).                                                                 *)
(***************************************************************************)
\* the coefficient (u, v) of the two-dimensional DCT of the rows x cols
\* image p: 4 * sum over y, x of p[y][x] * cos(pi u (2y+1) / (2 rows))
\* * cos(pi v (2x+1) / (2 cols))
RECURSIVE Coefficient(_, _, _, _, _, _)
Coefficient(p, rows, cols, u, v, k) ==
    IF k = 0
    THEN 0
    ELSE LET y == (k - 1) \div cols
             x == (k - 1) % cols
         IN  Coefficient(p, rows, cols, u, v, k - 1)
                 + 4 * p[k] * Cos(u * (2 * y + 1), rows) * Cos(v * (2 * x + 1), cols)

C17_HashFromPath ==
    pc = "hash_from_path"
        => /\ file # "image" => (ret.kind = "Err" /\ hash = NoHash /\ imgCalls = 0)
           /\ (file = "image" /\ HashFromImg(cfg, pixels).kind = "Ok")
                  => (ret = Ok(HashFromImg(cfg, pixels).val) /\ imgCalls = 1)

\* a corrupt file gave the decoder's error and no hash
C17_Witness ==
    /\ pc = "hash_from_path"
    /\ file = "corrupt"
    /\ ret = Err(ErrDecoding)
    /\ imgCalls = 0

(***************************************************************************)
(* C18: for each of the four hashers and every configuration with          *)
(* width >= 1 and height >= 1 (and factor >= 1 for the perceptual hasher), *)
(* hash_from_img never fails on a decoded image: it returns a hash with    *)
(* shape() = (height, width) and exactly width*height bits, and no panic   *)
(* of the construction is reached.                                         *)
(***************************************************************************)
C18_HashFromImgNeverFails ==
    (/\ pc = "hash_from_img"
     /\ cfg.width >= 1
     /\ cfg.height >= 1
     /\ cfg.factor >= 1)
        => /\ ret.kind = "Ok"
           /\ Shape(ret.val) = <<cfg.height, cfg.width>>
           /\ Len(ret.val.data) = cfg.width * cfg.height

(***************************************************************************)
(* Convert::grayscale.  An image is its width, its height and its RGBA     *)
(* pixels in row-major order.  The f32 sum of the three products is held   *)
(* in units of 1/CoefUnit; for the colours of the model the f32 sum and    *)
(* the exact one have the same whole part.                                 *)
(***************************************************************************)
CoefUnit == 10000

\* the coefficients of the colour space, in units of 1/CoefUnit
Coefficients(sp) ==
    IF sp = "REC709" THEN <<2126, 7152, 722>> ELSE <<2990, 5870, 1140>>

\* img.get_pixel(x, y)
GetPixel(i, x, y) == i.data[y * i.width + x + 1]

\* a float cast with `as u8`: the fraction is dropped, the value saturates
AsU8(units) ==
    IF units < 0 THEN 0 ELSE IF units \div CoefUnit > 255 THEN 255 ELSE units \div CoefUnit

\* the luma of one pixel
Luma(px, sp) ==
    AsU8(Coefficients(sp)[1] * px[1] + Coefficients(sp)[2] * px[2] + Coefficients(sp)[3] * px[3])

\* the output pixel written by the task that finishes after done others
SlotByCompletion(i, x, y, done) == done + 1

\* the output pixel par_enumerate_pixels_mut hands to the task of (x, y)
Slot(i, x, y, done) == y * i.width + x + 1

\* largest width and height of an input image, and most pixels
MaxImgDim == 3

MaxImgPixels == 3

\* the RGBA pixels of the input images
Colours ==
    {<<2, 0, 0, 255>>, <<2, 0, 0, 0>>, <<0, 1, 0, 255>>, <<1, 2, 3, 128>>,
     <<255, 255, 255, 255>>}

Images ==
    UNION {{[width |-> s[1], height |-> s[2], data |-> d] : d \in [1..(s[1] * s[2]) -> Colours]} :
              s \in {z \in (1..MaxImgDim) \X (1..MaxImgDim) : z[1] * z[2] <= MaxImgPixels}}

\* x and y of the task numbered q (row-major numbering)
TaskX(i, q) == (q - 1) % i.width

TaskY(i, q) == (q - 1) \div i.width

InitGray ==
    /\ pc = "start"
    /\ MatrixIdle /\ HasherIdle /\ ConvertIdle /\ MathIdle
    /\ bits = <<>> /\ str = <<>> /\ width = 0 /\ height = 0
    /\ hash = NoHash
    /\ other = NoHash
    /\ ret = NoRet
    /\ img \in Images
    /\ space \in {"REC601", "REC709"}
    /\ grayBuf = <<>>
    /\ task = <<>>

\* GrayImage::new(img.width(), img.height()) and the start of for_each
CallGrayscale ==
    /\ pc = "start"
    /\ grayBuf' = [q \in 1..(img.width * img.height) |-> 0]
    /\ task' = [q \in 1..(img.width * img.height) |-> [st |-> "todo", luma |-> 0]]
    /\ pc' = "running"
    /\ UNCHANGED <<bits, width, height, str, hash, other, ret, img, space,
                   matrixVars, convertVars, mathVars, hasherVars>>

\* the task of pixel q reads the input pixel and computes the luma
ReadPixel(q) ==
    /\ pc = "running"
    /\ task[q].st = "todo"
    /\ task' = [task EXCEPT ![q] =
                   [st |-> "read", luma |-> Luma(GetPixel(img, TaskX(img, q), TaskY(img, q)), space)]]
    /\ UNCHANGED <<bits, width, height, str, hash, other, ret, pc, img, space, grayBuf,
                   matrixVars, convertVars, mathVars, hasherVars>>

\* the task of pixel q writes its output pixel
WritePixel(q) ==
    /\ pc = "running"
    /\ task[q].st = "read"
    /\ grayBuf' = [grayBuf EXCEPT
                      ![Slot(img, TaskX(img, q), TaskY(img, q),
                             Cardinality({o \in 1..Len(task) : task[o].st = "done"}))] =
                          task[q].luma]
    /\ task' = [task EXCEPT ![q].st = "done"]
    /\ UNCHANGED <<bits, width, height, str, hash, other, ret, pc, img, space,
                   matrixVars, convertVars, mathVars, hasherVars>>

\* for_each returns when every task is done; DynamicImage::ImageLuma8(buffer)
ReturnGrayscale ==
    /\ pc = "running"
    /\ \A q \in 1..Len(task) : task[q].st = "done"
    /\ ret' = Ok([width |-> img.width, height |-> img.height, data |-> grayBuf])
    /\ pc' = "grayscale"
    /\ UNCHANGED <<bits, width, height, str, hash, other, img, space, grayBuf, task,
                   matrixVars, convertVars, mathVars, hasherVars>>

NextGray ==
    \/ CallGrayscale
    \/ \E q \in 1..Len(task) : ReadPixel(q)
    \/ \E q \in 1..Len(task) : WritePixel(q)
    \/ ReturnGrayscale

SpecGray == InitGray /\ [][NextGray]_vars

(***************************************************************************)
(* C19: grayscale: the output pixel at (x, y) is c_r*R + c_g*G + c_b*B of  *)
(* the input pixel at (x, y) rounded to the nearest integer (not           *)
(* truncated), with (0.299, 0.587, 0.114) for REC601 and (0.2126, 0.7152,  *)
(* 0.0722) for REC709; the output has one 8-bit channel and the width and  *)
(* height of the input, and alpha has no influence.                        *)
(***************************************************************************)
\* c_r*R + c_g*G + c_b*B rounded to the nearest whole number
RoundedLuma(px, sp) ==
    LET c == IF sp = "REC601" THEN <<2990, 5870, 1140>> ELSE <<2126, 7152, 722>>
    IN  (2 * (c[1] * px[1] + c[2] * px[2] + c[3] * px[3]) + 10000) \div 20000

C19_GrayscaleRounds ==
    pc = "grayscale"
        => /\ ret.kind = "Ok"
           /\ ret.val.width = img.width
           /\ ret.val.height = img.height
           /\ Len(ret.val.data) = img.width * img.height
           /\ \A q \in 1..Len(img.data) :
                  /\ ret.val.data[q] \in 0..255
                  /\ ret.val.data[q] = RoundedLuma(img.data[q], space)

(***************************************************************************)
(* C20: the parallel per-pixel grayscale conversion gives the same output  *)
(* buffer under every interleaving and completion order of the per-pixel   *)
(* tasks: each task reads only the input pixel at its own (x, y) and       *)
(* writes only the output pixel at that (x, y), so the final image is the  *)
(* sequential result, the same in every run on the same input.             *)
(***************************************************************************)
\* the buffer a loop over the pixels in row-major order produces
SequentialGray(i, sp) == [q \in 1..(i.width * i.height) |-> Luma(i.data[q], sp)]

C20_ScheduleIndependent ==
    pc \in {"running", "grayscale"}
        => /\ \A q \in 1..Len(task) :
                  /\ task[q].st = "done" => grayBuf[q] = SequentialGray(img, space)[q]
                  /\ task[q].st # "done" => grayBuf[q] = 0
                  /\ task[q].st = "read" => task[q].luma = SequentialGray(img, space)[q]
           /\ pc = "grayscale" =>
                  ret = Ok([width |-> img.width, height |-> img.height,
                            data |-> SequentialGray(img, space)])

\* the task of the second pixel has written its luma before the task of the
\* first pixel has started
C20_Witness ==
    /\ pc = "running"
    /\ Len(task) >= 2
    /\ task[1].st = "todo"
    /\ task[2].st = "done"
    /\ grayBuf[2] = 255
    /\ grayBuf[1] = 0

(***************************************************************************)
(* Convert::convert: grayscale, then resize_exact with the Lanczos3 filter *)
(* of the image crate.  The filter is outside the crate: it may give any   *)
(* bytes for the pixels of the target.                                     *)
(***************************************************************************)
\* Convert::grayscale as a whole: the image the per-pixel tasks leave
Grayscale(i, sp) ==
    [width |-> i.width, height |-> i.height,
     data |-> [q \in 1..(i.width * i.height) |-> Luma(i.data[q], sp)]]

\* the target sizes handed to convert, zero included
Targets == {z \in (0..MaxImgDim) \X (0..MaxImgDim) : z[1] * z[2] <= MaxImgPixels}

InitConvert ==
    /\ pc = "start"
    /\ MatrixIdle /\ HasherIdle /\ MathIdle
    /\ bits = <<>> /\ str = <<>>
    /\ hash = NoHash
    /\ other = NoHash
    /\ ret = NoRet
    /\ img \in Images
    /\ space \in {"REC601", "REC709"}
    /\ \E z \in Targets : width = z[1] /\ height = z[2]
    /\ grayBuf = <<>>
    /\ task = <<>>
    /\ filterCalls = 0

\* converter.convert(&img, width, height, space): no check of the target
\* precedes the call of resize_exact
CallConvert ==
    /\ pc = "start"
    /\ grayBuf' = Grayscale(img, space).data
    /\ filterCalls' = filterCalls + 1
    /\ \E out \in ConvertOutcomes(width, height) :
           ret' = IF out.kind = "Ok"
                  THEN Ok([width |-> width, height |-> height, data |-> out.val])
                  ELSE out
    /\ pc' = "convert"
    /\ UNCHANGED <<bits, width, height, str, hash, other, img, space, task,
                   matrixVars, mathVars, hasherVars>>

NextConvert == CallConvert

SpecConvert == InitConvert /\ [][NextConvert]_vars

(***************************************************************************)
(* C21: convert fails fast when the target width or height is 0: the call  *)
(* is rejected before the resize filter is invoked; for a non-zero target  *)
(* it returns a grayscale image of exactly target_width x target_height.   *)
(***************************************************************************)
C21_ConvertFailsFast ==
    pc = "convert"
        => IF width = 0 \/ height = 0
           THEN ret.kind # "Ok" /\ filterCalls = 0
           ELSE /\ ret.kind = "Ok"
                /\ ret.val.width = width
                /\ ret.val.height = height
                /\ Len(ret.val.data) = width * height

(***************************************************************************)
(* C22: decode checks its inputs in a fixed order and reports the first    *)
(* failing check: (1) width*height = 0 gives "Width or height cannot be 0" *)
(* whatever the string is; (2) otherwise an empty string gives "String is  *)
(* empty"; (3) otherwise a byte length different from ceil(width*height/4) *)
(* gives the too-short/too-long error even when the string holds non-hex   *)
(* characters; (4) only a string of the right length can give the          *)
(* invalid-digit error.                                                    *)
(***************************************************************************)
\* the number of bytes of the UTF-8 form of s
Utf8Bytes(s) ==
    Len(s) + Cardinality({i \in 1..Len(s) : s[i] >= 128})
           + Cardinality({i \in 1..Len(s) : s[i] >= 2048})
           + Cardinality({i \in 1..Len(s) : s[i] >= 65536})

C22_DecodeCheckOrder ==
    pc = "decode"
        => LET length == width * height
           IN  /\ length = 0 => ret = Err("Width or height cannot be 0")
               /\ (length # 0 /\ str = <<>>) => ret = Err("String is empty")
               /\ (length # 0 /\ str # <<>> /\ Utf8Bytes(str) # CeilDiv4(length))
                      => ret = Err("String is too short or too long for the specified size")
               /\ ret = Err("invalid digit found in string")
                      => (length # 0 /\ Utf8Bytes(str) = CeilDiv4(length))

\* the one-character string "g" for a 3 x 3 hash: too short and not hex,
\* reported as too short
C22_Witness ==
    /\ pc = "decode"
    /\ str = <<103>>
    /\ width = 3
    /\ height = 3
    /\ ret = Err("String is too short or too long for the specified size")

(***************************************************************************)
(* C26: decode is total: for every string (also with non-hex or multi-byte *)
(* characters, where the byte length compared against ceil(width*height/4) *)
(* differs from the number of characters read two per byte) and every      *)
(* width and height, decode returns Ok or Err and never panics by reading  *)
(* past the end of the characters.                                         *)
(***************************************************************************)
C26_DecodeTotal ==
    pc = "decode" => ret.kind \in {"Ok", "Err"}

\* a string with a two-byte character whose byte length is the expected one
\* and whose characters are fewer: decode stops at that character
C26_Witness ==
    /\ pc = "decode"
    /\ \E i \in 1..Len(str) : str[i] = 233
    /\ Utf8Bytes(str) = CeilDiv4(width * height)
    /\ Len(str) < Utf8Bytes(str)
    /\ width * height > 8
    /\ ret = Err("invalid digit found in string")

(***************************************************************************)
(* Construction: one call of ImageHash::new on a matrix of any form, or    *)
(* one call of ImageHash::from_bool_iter on a sequence and a size that     *)
(* need not fit each other.                                                *)
(***************************************************************************)
InitConstruct ==
    /\ pc = "start"
    /\ HasherIdle /\ GrayIdle /\ ConvertIdle /\ MathIdle
    /\ str = <<>>
    /\ hash = NoHash
    /\ other = NoHash
    /\ ret = NoRet
    /\ \/ matrix \in Matrices /\ bits = <<>> /\ width = 0 /\ height = 0
       \/ matrix = <<>> /\ bits \in BoolSeqs(MaxDistBits) /\ width \in Dims /\ height \in Dims

NextConstruct == CallNew \/ CallFromBoolIter

SpecConstruct == InitConstruct /\ [][NextConstruct]_vars

(***************************************************************************)
(* C23: construction rejects malformed input by panicking and returns no   *)
(* hash for it: ImageHash::new panics when the matrix has no rows, when    *)
(* the first row is empty, or when a row's length differs from the first   *)
(* row's; ImageHash::from_bool_iter panics when the sequence yields fewer  *)
(* or more than width*height values (it never cuts or fills to fit).       *)
(***************************************************************************)
\* no rows, an empty first row, or a row of another length than the first
Malformed(m) ==
    IF m = <<>> THEN TRUE
    ELSE IF m[1] = <<>> THEN TRUE
    ELSE \E r \in 1..Len(m) : Len(m[r]) # Len(m[1])

C23_ConstructionPanics ==
    /\ (pc = "new" /\ Malformed(matrix)) => (ret.kind = "Panic" /\ hash = NoHash)
    /\ (pc = "from_bool_iter" /\ Len(bits) # width * height)
           => (ret.kind = "Panic" /\ hash = NoHash)

\* rows of the lengths 1, 2 and 0: three values for a first row of 1 and 3
\* rows, rejected for the row lengths
C23_Witness ==
    /\ pc = "new"
    /\ matrix = <<<<TRUE>>, <<TRUE, FALSE>>, <<>>>>
    /\ ret = Panic("All rows must have the same length")
    /\ hash = NoHash

(***************************************************************************)
(* One call of dct2 or of median on a slice, or of dct2_over_matrix on a   *)
(* matrix.  The f64 values handed in are the whole numbers 1 to 5, held in *)
(* halves; dct2 gives its output in units of 1/(2 * CosScale).             *)
(***************************************************************************)
\* longest slice, and most cells of a matrix of numbers
MaxSliceLen == 5

MaxCells == 6

\* 1.0, 2.0, 3.0, 4.0, 5.0 in halves
NumValues == {2, 4, 6, 8, 10}

Slices == UNION {[1..n -> NumValues] : n \in 0..MaxSliceLen}

\* the empty matrix, the matrices of empty rows and the rectangular ones
NumMatrices ==
    {<<>>}
    \cup {[r \in 1..n |-> <<>>] : n \in 1..MaxRows}
    \cup UNION {[1..z[1] -> [1..z[2] -> NumValues]] :
                   z \in {y \in (1..MaxRows) \X (1..MaxCols) : y[1] * y[2] <= MaxCells}}

InitMath ==
    /\ pc = "start"
    /\ HasherIdle /\ GrayIdle /\ ConvertIdle
    /\ bits = <<>> /\ str = <<>> /\ width = 0 /\ height = 0
    /\ hash = NoHash
    /\ other = NoHash
    /\ ret = NoRet
    /\ \/ slice \in Slices /\ matrix = <<>>
       \/ slice = <<>> /\ matrix \in NumMatrices
    /\ slice0 = slice
    /\ ax = "Row"

\* dct2(&slice)
CallDct2 ==
    /\ pc = "start"
    /\ ret' = Ok(Dct2(slice))
    /\ pc' = "dct2"
    /\ UNCHANGED <<bits, width, height, str, hash, other, matrixVars, mathVars,
                   convertVars, hasherVars, grayVars>>

\* dct2_over_matrix(&matrix, axis)
CallDct2OverMatrix ==
    /\ pc = "start"
    /\ \E a \in {"Row", "Column"} :
           /\ ax' = a
           /\ ret' = Ok(Dct2OverMatrix(matrix, a))
    /\ pc' = "dct2_over_matrix"
    /\ UNCHANGED <<bits, width, height, str, hash, other, matrixVars, slice, slice0,
                   convertVars, hasherVars, grayVars>>

\* median(&slice): the sorting is done on a copy
CallMedian ==
    /\ pc = "start"
    /\ ret' = Median(slice)
    /\ pc' = "median"
    /\ UNCHANGED <<bits, width, height, str, hash, other, matrixVars, mathVars,
                   convertVars, hasherVars, grayVars>>

NextMath == CallDct2 \/ CallDct2OverMatrix \/ CallMedian

SpecMath == InitMath /\ [][NextMath]_vars

(***************************************************************************)
(* C24: dct2 is the unnormalised DCT-II                                    *)
(* X[k] = 2 * sum_i x[i]*cos(pi*k*(2i+1)/(2n)): the output is as long as   *)
(* the input, an empty input gives an empty output, and X[0] is exactly    *)
(* twice the sum of the inputs ([1,2,3,4] gives X[0] = 20).                *)
(* dct2_over_matrix keeps the shape of the matrix, transforms each row by  *)
(* itself for Axis::Row and each column by itself for Axis::Column, and    *)
(* returns an empty or empty-row matrix unchanged.                         *)
(***************************************************************************)
\* sum over the first i values of x of x[j] * cos(pi k (2(j-1)+1) / (2n))
RECURSIVE CosSum(_, _, _)
CosSum(x, k, i) ==
    IF i = 0
    THEN 0
    ELSE CosSum(x, k, i - 1) + x[i] * Cos(k * (2 * (i - 1) + 1), Len(x))

\* X[k] of the claim, k from 0
RefDct(x, k) == 2 * CosSum(x, k, Len(x))

\* column c of the matrix m
ColumnOf(m, c) == [r \in 1..Len(m) |-> m[r][c]]

C24_Dct2 ==
    /\ pc = "dct2"
           => /\ ret.kind = "Ok"
              /\ Len(ret.val) = Len(slice)
              /\ slice = <<>> => ret.val = <<>>
              /\ slice # <<>> => ret.val[1] = 2 * 1000 * PrefixSum(slice, Len(slice))
              /\ slice = <<2, 4, 6, 8>> => ret.val[1] = 1000 * 2 * 20
              /\ \A k \in 1..Len(slice) : ret.val[k] = RefDct(slice, k - 1)
    /\ pc = "dct2_over_matrix"
           => /\ ret.kind = "Ok"
              /\ Len(ret.val) = Len(matrix)
              /\ \A r \in 1..Len(matrix) : Len(ret.val[r]) = Len(matrix[r])
              /\ (IF matrix = <<>> THEN TRUE ELSE matrix[1] = <<>>) => ret.val = matrix
              /\ ax = "Row" =>
                     \A r \in 1..Len(matrix) : \A c \in 1..Len(matrix[r]) :
                         ret.val[r][c] = RefDct(matrix[r], c - 1)
              /\ ax = "Column" =>
                     \A r \in 1..Len(matrix) : \A c \in 1..Len(matrix[r]) :
                         ret.val[r][c] = RefDct(ColumnOf(matrix, c), r - 1)

\* the columns (1, 4), (2, 5), (3, 1) transformed one by one: the first row
\* of the result holds twice their sums 10, 14, 8
C24_Witness ==
    /\ pc = "dct2_over_matrix"
    /\ ax = "Column"
    /\ matrix = <<<<2, 4, 6>>, <<8, 10, 2>>>>
    /\ ret.kind = "Ok"
    /\ Len(ret.val) = 2
    /\ ret.val[1] = <<20000, 28000, 16000>>

(***************************************************************************)
(* C25: math::median returns None for an empty slice and otherwise the     *)
(* standard median of the values whatever their order: the middle one of   *)
(* the sorted values for an odd count, the mean of the two middle ones for *)
(* an even count ([3,2,1,4] gives 2.5, [3,4,1,2,5] gives 3); the caller's  *)
(* slice is not reordered.                                                 *)
(***************************************************************************)
\* the k-th smallest value of s, by counting: fewer than k values are below
\* it and at least k values are not above it
KthSmallest(s, k) ==
    CHOOSE x \in {s[i] : i \in 1..Len(s)} :
        /\ Cardinality({i \in 1..Len(s) : s[i] < x}) < k
        /\ Cardinality({i \in 1..Len(s) : s[i] <= x}) >= k

\* twice the standard median of the values of s
TwiceStandardMedian(s) ==
    IF Len(s) % 2 = 1
    THEN 2 * KthSmallest(s, (Len(s) + 1) \div 2)
    ELSE KthSmallest(s, Len(s) \div 2) + KthSmallest(s, Len(s) \div 2 + 1)

C25_Median ==
    pc = "median"
        => /\ slice = slice0
           /\ slice = <<>> => ret.kind = "None"
           /\ slice # <<>> => (ret.kind = "Some" /\ 2 * ret.val = TwiceStandardMedian(slice))
           /\ slice = <<6, 4, 2, 8>> => ret.val = 5
           /\ slice = <<6, 8, 2, 4, 10>> => ret.val = 6

\* [3, 2, 1, 4] in halves gives 2.5 in halves, and the slice is as it was
C25_Witness ==
    /\ pc = "median"
    /\ slice = <<6, 4, 2, 8>>
    /\ slice0 = <<6, 4, 2, 8>>
    /\ ret = Some(5)

====
